---------------------------- MODULE Spec2Model ----------------------------
(***************************************************************************)
(* Model of audit_tool.py: the process monitor (monitor_processes), the    *)
(* network monitor (monitor_network) with its address decoder (hex_to_ip)  *)
(* and the filesystem handler (FileAuditHandler).                          *)
(*                                                                         *)
(* Text is modelled as a sequence of one-character strings.  The NUL byte  *)
(* is written "NUL".                                                       *)
(***************************************************************************)
EXTENDS Integers, Sequences, FiniteSets, TLC

VARIABLES
    \* ---- /proc as the kernel presents it (environment of monitor_processes)
    alive,            \* PIDs that have a /proc/<pid> directory now
    gen,              \* gen[p]: how many processes have carried PID p so far
    \* ---- monitor_processes
    known_pids,       \* line 60 / 82
    current_pids,     \* line 63
    new_pids,         \* line 65, the part the loop of line 68 has not visited yet
    terminated_pids,  \* line 66, the part the loop of line 79 has not visited yet
    proc_pc,          \* "poll": before line 63; "loops": inside lines 68-80
    process_log,      \* lines the process logger received since line 63 of this cycle
    attempted,        \* PIDs whose cmdline open was attempted in this cycle
    read_failed,      \* PIDs whose open raised FileNotFoundError in this cycle
    read_failed_prev, \* the same set for the cycle before
    known_gen,        \* gen of each PID at the listing that produced known_pids
    current_gen,      \* gen of each PID at the listing that produced current_pids
    cmdline_read,     \* what the latest f.read() of line 71 returned in this cycle
    unterminated,     \* unterminated[p]: the listings of line 65 that had p in
                      \* new_pids, less the lines logged for p at line 80
    first_cycle,      \* line 82 has not been reached yet
    \* ---- monitor_network
    tcp_connections,  \* line 98, the part the loop of line 101 has not visited yet
    udp_connections,  \* line 99, the part the loop of line 106 has not visited yet
    net_pc,           \* "poll": before line 98; "loops": inside lines 101-109;
                      \* "dead": an exception left monitor_network, the thread ended
    network_log,      \* lines the network logger received since line 98 of this cycle
    net_fault,        \* the exception that ended the thread, "none" while it runs
    fault_line,       \* the table line whose processing raised net_fault
    tcp_read,         \* what read_connections("tcp") returned at line 98 of this cycle
    udp_read,         \* what read_connections("udp") returned at line 99 of this cycle
    \* ---- hex_to_ip called on its own
    hex_ip,           \* the argument
    decoded,          \* the outcome of the call, kind "none" before the call
    \* ---- FileAuditHandler
    temporary_file_map,  \* line 18
    fs_event,         \* the event of the latest handler call
    file_log,         \* lines the file logger received during the latest handler call
    \* ---- main
    root,             \* what sys.argv[1] names: "missing" (no argument), "nonexistent",
                      \* "file" (exists, no directory) or "dir"
    main_pc,          \* "start", "validated", "proc_started", "net_started",
                      \* "watching" (line 157) or "exited"
    exit_status,      \* the status the program exited with, "none" while it runs
    console,          \* what main printed last: "none", "usage", "error", "started", "stopped"
    started,          \* the observers started so far: "proc", "net", "fs"
    startup_logged    \* line 141 wrote its line to the file logger

proc_vars == <<alive, gen, known_pids, current_pids, new_pids,
               terminated_pids, proc_pc, process_log, attempted, read_failed,
               read_failed_prev, known_gen, current_gen, cmdline_read,
               unterminated, first_cycle>>

net_vars == <<tcp_connections, udp_connections, net_pc, network_log, net_fault,
              fault_line, tcp_read, udp_read>>

codec_vars == <<hex_ip, decoded>>

fs_vars == <<temporary_file_map, fs_event, file_log>>

main_vars == <<root, main_pc, exit_status, console, started, startup_logged>>

vars == <<proc_vars, net_vars, codec_vars, fs_vars, main_vars>>

-----------------------------------------------------------------------------
(* Bounds *)

MaxPid == 2
MaxGen == 2

PIDs == 1..MaxPid

\* What reading /proc/<pid>/cmdline can return: nothing (a kernel thread), NUL
\* bytes only, or an ordinary argv.
CmdBlobs == { <<>>, <<"NUL">>, <<"s", "h", "NUL", "-", "c", "NUL">> }

-----------------------------------------------------------------------------
(* Text helpers: str.replace, str.strip *)

Whitespace == {" ", "\t", "\n", "\r"}

\* s.replace(a, b) for one-character a and b
Replace(s, a, b) == [i \in 1..Len(s) |-> IF s[i] = a THEN b ELSE s[i]]

RECURSIVE LStrip(_)
LStrip(s) == IF s # <<>> /\ Head(s) \in Whitespace THEN LStrip(Tail(s)) ELSE s

RECURSIVE RStrip(_)
RStrip(s) ==
    IF s # <<>> /\ s[Len(s)] \in Whitespace
    THEN RStrip(SubSeq(s, 1, Len(s) - 1))
    ELSE s

\* s.strip()
Strip(s) == RStrip(LStrip(s))

\* line 71 without the strip()
ReadCmd_NoStrip(blob) == Replace(blob, "NUL", " ")

\* line 71: f.read().replace('\x00', ' ').strip()
ReadCmd(blob) == Strip(Replace(blob, "NUL", " "))

-----------------------------------------------------------------------------
(* The process table *)

\* a process is created with PID p
Spawn(p) ==
    /\ p \notin alive
    /\ gen[p] < MaxGen
    /\ alive' = alive \cup {p}
    /\ gen' = [gen EXCEPT ![p] = @ + 1]
    /\ UNCHANGED <<net_vars, codec_vars, fs_vars, main_vars>>
    /\ UNCHANGED <<known_pids, current_pids, new_pids, terminated_pids, proc_pc,
                   process_log, attempted, read_failed, read_failed_prev,
                   known_gen, current_gen,
                   cmdline_read, unterminated, first_cycle>>

\* the process with PID p exits
Exit(p) ==
    /\ p \in alive
    /\ alive' = alive \ {p}
    /\ UNCHANGED <<net_vars, codec_vars, fs_vars, main_vars>>
    /\ UNCHANGED <<gen, known_pids, current_pids, new_pids, terminated_pids,
                   proc_pc, process_log, attempted, read_failed,
                   read_failed_prev, known_gen, current_gen,
                   cmdline_read, unterminated, first_cycle>>

-----------------------------------------------------------------------------
(* monitor_processes *)

StartNoCmd(p) == [type |-> "start_nocmd", pid |-> p, cmd |-> <<>>]
StartCmd(p, c) == [type |-> "start_cmd", pid |-> p, cmd |-> c]
Terminated(p) == [type |-> "terminated", pid |-> p, cmd |-> <<>>]

\* a previous snapshot that already holds every PID
InitialKnownPids_AllPids == PIDs

\* line 60: known_pids = set()
InitialKnownPids == {}

\* line 65 without the subtraction of known_pids
NewPids_NoDiff(current, known) == current

\* line 65
NewPids(current, known) == current \ known

\* line 66 without the subtraction of current_pids
TerminatedPids_NoDiff(current, known) == known

\* line 66
TerminatedPids(current, known) == known \ current

\* no f.read() returned in this cycle yet, or the latest open raised
NoRead == <<"unread">>

\* lines 63-66: one listing of /proc and the two set differences
ListProc ==
    /\ proc_pc = "poll"
    /\ current_pids' = alive
    /\ new_pids' = NewPids(alive, known_pids)
    /\ terminated_pids' = TerminatedPids(alive, known_pids)
    /\ proc_pc' = "loops"
    /\ process_log' = <<>>
    /\ attempted' = {}
    /\ read_failed' = {}
    /\ read_failed_prev' = read_failed
    /\ current_gen' = [p \in PIDs |-> IF p \in alive THEN gen[p] ELSE 0]
    /\ UNCHANGED <<net_vars, codec_vars, fs_vars, main_vars>>
    /\ cmdline_read' = NoRead
    /\ unterminated' = [p \in PIDs |-> IF p \in NewPids(alive, known_pids)
                                       THEN unterminated[p] + 1
                                       ELSE unterminated[p]]
    /\ UNCHANGED <<alive, gen, known_pids, known_gen, first_cycle>>

\* lines 72-75: the line logged for a command line that was read
StartEvent(p, cmd) == IF cmd = <<>> THEN StartNoCmd(p) ELSE StartCmd(p, cmd)

\* lines 76-77: what the loop logs when the open raises FileNotFoundError
OnFileNotFound(p) == <<>>

\* lines 68-77: one iteration of the loop over new_pids
ReadCmdline(p) ==
    /\ proc_pc = "loops"
    /\ p \in new_pids
    /\ new_pids' = new_pids \ {p}
    /\ attempted' = attempted \cup {p}
    /\ IF p \in alive
       THEN /\ \E blob \in CmdBlobs :
                  /\ cmdline_read' = blob
                  /\ process_log' = Append(process_log, StartEvent(p, ReadCmd(blob)))
            /\ UNCHANGED read_failed
       ELSE /\ cmdline_read' = NoRead
            /\ process_log' = process_log \o OnFileNotFound(p)
            /\ read_failed' = read_failed \cup {p}
    /\ UNCHANGED <<net_vars, codec_vars, fs_vars, main_vars>>
    /\ UNCHANGED <<alive, gen, known_pids, current_pids, terminated_pids,
                   proc_pc, read_failed_prev, known_gen, current_gen,
                   unterminated, first_cycle>>

\* lines 79-80: one iteration of the loop over terminated_pids
LogTerminated(p) ==
    /\ proc_pc = "loops"
    /\ new_pids = {}
    /\ p \in terminated_pids
    /\ terminated_pids' = terminated_pids \ {p}
    /\ process_log' = Append(process_log, Terminated(p))
    /\ unterminated' = [unterminated EXCEPT ![p] = @ - 1]
    /\ UNCHANGED <<net_vars, codec_vars, fs_vars, main_vars>>
    /\ UNCHANGED <<alive, gen, known_pids, current_pids, new_pids,
                   proc_pc, attempted, read_failed, read_failed_prev, known_gen,
                   current_gen, cmdline_read, first_cycle>>

\* both loops of the cycle have run to their end
CycleDone == proc_pc = "loops" /\ new_pids = {} /\ terminated_pids = {}

\* lines 82-83
EndCycle ==
    /\ CycleDone
    /\ known_pids' = current_pids
    /\ known_gen' = current_gen
    /\ proc_pc' = "poll"
    /\ first_cycle' = FALSE
    /\ UNCHANGED <<net_vars, codec_vars, fs_vars, main_vars>>
    /\ UNCHANGED <<alive, gen, current_pids, new_pids, terminated_pids,
                   process_log, attempted, read_failed, read_failed_prev,
                   current_gen, cmdline_read, unterminated>>

ProcNext ==
    \/ \E p \in PIDs : Spawn(p)
    \/ \E p \in PIDs : Exit(p)
    \/ ListProc
    \/ \E p \in PIDs : ReadCmdline(p)
    \/ \E p \in PIDs : LogTerminated(p)
    \/ EndCycle

-----------------------------------------------------------------------------
(* Text helpers: membership of a substring, str.split *)

\* sub in s
Contains(s, sub) ==
    \E i \in 1..(Len(s) - Len(sub) + 1) : SubSeq(s, i, i + Len(sub) - 1) = sub

\* s.find(sub) + 1, for a sub that s contains
FindFirst(s, sub) ==
    CHOOSE i \in 1..(Len(s) - Len(sub) + 1) :
        /\ SubSeq(s, i, i + Len(sub) - 1) = sub
        /\ \A j \in 1..(i - 1) : SubSeq(s, j, j + Len(sub) - 1) # sub

\* s.split(sep): the pieces between the occurrences of sep, empty ones kept
RECURSIVE Split(_, _)
Split(s, sep) ==
    IF Contains(s, sep)
    THEN LET i == FindFirst(s, sep)
         IN  <<SubSeq(s, 1, i - 1)>> \o Split(SubSeq(s, i + Len(sep), Len(s)), sep)
    ELSE <<s>>

\* s.split(): the runs of non-whitespace characters
RECURSIVE SplitWhitespace(_)
SplitWhitespace(s) ==
    LET t == LStrip(s)
        n == IF \E i \in 1..Len(t) : t[i] \in Whitespace
             THEN (CHOOSE i \in 1..Len(t) :
                      /\ t[i] \in Whitespace
                      /\ \A j \in 1..(i - 1) : t[j] \notin Whitespace) - 1
             ELSE Len(t)
    IN  IF t = <<>>
        THEN <<>>
        ELSE <<SubSeq(t, 1, n)>> \o SplitWhitespace(SubSeq(t, n + 1, Len(t)))

-----------------------------------------------------------------------------
(* hex_to_ip *)

HexDigits == <<"0", "1", "2", "3", "4", "5", "6", "7", "8", "9",
               "A", "B", "C", "D", "E", "F">>

IsHexDigit(c) == \E i \in 1..16 : HexDigits[i] = c

DigitVal(c) == (CHOOSE i \in 1..16 : HexDigits[i] = c) - 1

\* int(s, 16) does not raise ValueError
IsHex(s) == s # <<>> /\ \A i \in 1..Len(s) : IsHexDigit(s[i])

\* int(s, 16) for a string of hexadecimal digits
RECURSIVE HexVal(_)
HexVal(s) ==
    IF s = <<>> THEN 0
    ELSE 16 * HexVal(SubSeq(s, 1, Len(s) - 1)) + DigitVal(s[Len(s)])

\* the digits of h without its leading zeros
RECURSIVE Significant(_)
Significant(h) == IF h # <<>> /\ Head(h) = "0" THEN Significant(Tail(h)) ELSE h

\* int(h, 16) < 2^32, the range of struct.pack's "L": at most 8 significant
\* digits (the value itself is beyond the checker's integers from 2^31 on)
Fits32(h) == Len(Significant(h)) <= 8

\* the 8 digits of a value below 2^32
Pad8(h) == [i \in 1..(8 - Len(Significant(h))) |-> "0"] \o Significant(h)

\* the four bytes of the value, most significant first
PackLE_BigEndian(h) ==
    LET d == Pad8(h) IN
    <<HexVal(SubSeq(d, 1, 2)), HexVal(SubSeq(d, 3, 4)),
      HexVal(SubSeq(d, 5, 6)), HexVal(SubSeq(d, 7, 8))>>

\* struct.pack("<L", int(h, 16)): the four bytes of the value, least
\* significant first
PackLE(h) ==
    LET d == Pad8(h) IN
    <<HexVal(SubSeq(d, 7, 8)), HexVal(SubSeq(d, 5, 6)),
      HexVal(SubSeq(d, 3, 4)), HexVal(SubSeq(d, 1, 2))>>

\* the three outcomes of a call: a dotted quad, the sentinel, an exception
Quad(q) == [kind |-> "ip", quad |-> q, exc |-> "none"]
InvalidIP == [kind |-> "invalid", quad |-> <<>>, exc |-> "none"]
Raised(e) == [kind |-> "raise", quad |-> <<>>, exc |-> e]
NotCalled == [kind |-> "none", quad |-> <<>>, exc |-> "none"]

\* lines 85-89.  socket.inet_ntoa prints the packed bytes in their order;
\* struct.pack raises struct.error, which is no ValueError, above 2^32 - 1.
hex_to_ip(h) ==
    IF ~IsHex(h) THEN InvalidIP
    ELSE IF ~Fits32(h) THEN Raised("struct.error")
    ELSE Quad(PackLE(h))

-----------------------------------------------------------------------------
(* hex_to_ip called on its own *)

MaxHexLen == 9

\* "G" stands for any character that is no hexadecimal digit
HexAlphabet == {"0", "F", "G"}

HexInputs ==
    UNION {[1..n -> HexAlphabet] : n \in 0..MaxHexLen}
    \cup { <<"0", "1", "0", "0", "0", "0", "7", "F">>,
           <<"7", "F">>,
           <<"1", "0", "0", "0", "0", "0", "0", "0", "0">> }

Decode ==
    /\ decoded = NotCalled
    /\ decoded' = hex_to_ip(hex_ip)
    /\ UNCHANGED <<hex_ip, proc_vars, net_vars, fs_vars, main_vars>>

CodecNext == Decode

-----------------------------------------------------------------------------
(* monitor_network *)

MaxLines == 2

Loopback == <<"0", "1", "0", "0", "0", "0", "7", "F">>
Port80 == <<"0", "0", "5", "0">>

HeaderLine == <<" ", "s", "l", " ", "l", "o", "c", "a", "l", "\n">>

\* " 0: 0100007F:0050 0A\n"
GoodLine == <<" ", "0", ":", " ">> \o Loopback \o <<":">> \o Port80
            \o <<" ", "0", "A", "\n">>

\* " 1: 0100007F 0A\n": the local endpoint has no colon
NoColonLine == <<" ", "1", ":", " ">> \o Loopback \o <<" ", "0", "A", "\n">>

\* " 2:\n": the local endpoint field is missing
ShortLine == <<" ", "2", ":", "\n">>

\* " 3: GG:0050 0A\n": the address is no hexadecimal number
BadHexLine == <<" ", "3", ":", " ", "G", "G", ":">> \o Port80
              \o <<" ", "0", "A", "\n">>

NetLines == {GoodLine, NoColonLine, ShortLine, BadHexLine}

\* the contents /proc/net/tcp and /proc/net/udp can have: the header line,
\* then up to MaxLines lines
Tables == {<<HeaderLine>> \o body : body \in UNION {[1..n -> NetLines] : n \in 0..MaxLines}}

\* line 95: f.readlines()[1:]
read_connections(table) == IF table = <<>> THEN <<>> ELSE Tail(table)

\* the local endpoint field is missing, or does not split into address:port
Malformed(line) ==
    \/ Len(SplitWhitespace(line)) < 2
    \/ Len(Split(SplitWhitespace(line)[2], <<":">>)) # 2

Conn(protocol, ip, port) == [proto |-> protocol, ip |-> ip, port |-> port, exc |-> "none"]
ConnRaised(e) == [proto |-> "none", ip |-> NotCalled, port |-> 0, exc |-> e]

\* lines 102-104 (TCP) and 107-109 (UDP): the line logged for one table line,
\* or the exception the statements raise
ParseConn(protocol, conn) ==
    LET parts == SplitWhitespace(conn) IN
    IF Len(parts) < 2 THEN ConnRaised("IndexError")
    ELSE LET f == Split(parts[2], <<":">>) IN
         IF Len(f) # 2 THEN ConnRaised("ValueError")
         ELSE LET ip == hex_to_ip(f[1]) IN
              IF ip.kind = "raise" THEN ConnRaised(ip.exc)
              ELSE IF ~IsHex(f[2]) THEN ConnRaised("ValueError")
              ELSE Conn(protocol, ip, HexVal(f[2]))

\* lines 98-99, the two files having one of the given contents
\* lines 101-109: the result of the loop body for every line the tables can
\* hold, computed once
Parsed == [protocol \in {"TCP", "UDP"} |-> [conn \in NetLines |-> ParseConn(protocol, conn)]]

ReadConnectionsOf(tables) ==
    /\ net_pc = "poll"
    /\ \E tcp \in tables, udp \in tables :
          /\ tcp_connections' = read_connections(tcp)
          /\ udp_connections' = read_connections(udp)
          /\ tcp_read' = read_connections(tcp)
          /\ udp_read' = read_connections(udp)
    /\ network_log' = <<>>
    /\ net_pc' = "loops"
    /\ UNCHANGED <<net_fault, fault_line, proc_vars, codec_vars, fs_vars, main_vars>>

\* lines 98-99
ReadConnections == ReadConnectionsOf(Tables)

\* lines 101-104: one iteration of the loop over tcp_connections
LogTcp ==
    /\ net_pc = "loops"
    /\ tcp_connections # <<>>
    /\ LET r == Parsed["TCP"][Head(tcp_connections)] IN
       IF r.exc = "none"
       THEN /\ network_log' = Append(network_log, r)
            /\ tcp_connections' = Tail(tcp_connections)
            /\ UNCHANGED <<net_pc, net_fault, fault_line>>
       ELSE /\ net_pc' = "dead"
            /\ net_fault' = r.exc
            /\ fault_line' = Head(tcp_connections)
            /\ UNCHANGED <<network_log, tcp_connections>>
    /\ UNCHANGED <<udp_connections, tcp_read, udp_read, proc_vars, codec_vars, fs_vars, main_vars>>

\* lines 106-109: one iteration of the loop over udp_connections
LogUdp ==
    /\ net_pc = "loops"
    /\ tcp_connections = <<>>
    /\ udp_connections # <<>>
    /\ LET r == Parsed["UDP"][Head(udp_connections)] IN
       IF r.exc = "none"
       THEN /\ network_log' = Append(network_log, r)
            /\ udp_connections' = Tail(udp_connections)
            /\ UNCHANGED <<net_pc, net_fault, fault_line>>
       ELSE /\ net_pc' = "dead"
            /\ net_fault' = r.exc
            /\ fault_line' = Head(udp_connections)
            /\ UNCHANGED <<network_log, udp_connections>>
    /\ UNCHANGED <<tcp_connections, tcp_read, udp_read, proc_vars, codec_vars, fs_vars, main_vars>>

\* line 111
NetSleep ==
    /\ net_pc = "loops"
    /\ tcp_connections = <<>>
    /\ udp_connections = <<>>
    /\ net_pc' = "poll"
    /\ UNCHANGED <<tcp_connections, udp_connections, network_log, net_fault,
                   fault_line, tcp_read, udp_read, proc_vars, codec_vars, fs_vars, main_vars>>

NetNext == ReadConnections \/ LogTcp \/ LogUdp \/ NetSleep

-----------------------------------------------------------------------------
(* os.path.basename, os.path.dirname *)

\* p.rfind('/') + 1
AfterLastSlash(p) ==
    IF \E i \in 1..Len(p) : p[i] = "/"
    THEN CHOOSE i \in 1..Len(p) : p[i] = "/" /\ \A j \in (i + 1)..Len(p) : p[j] # "/"
    ELSE 0

RECURSIVE RStripSlash(_)
RStripSlash(s) ==
    IF s # <<>> /\ s[Len(s)] = "/" THEN RStripSlash(SubSeq(s, 1, Len(s) - 1)) ELSE s

\* posixpath.basename
basename(p) == SubSeq(p, AfterLastSlash(p) + 1, Len(p))

\* posixpath.dirname
dirname(p) ==
    LET head == SubSeq(p, 1, AfterLastSlash(p)) IN
    IF head # <<>> /\ \E i \in 1..Len(head) : head[i] # "/"
    THEN RStripSlash(head)
    ELSE head

-----------------------------------------------------------------------------
(* FileAuditHandler *)

\* '.goutputstream', lines 21, 32, 41, 53
Marker == <<".", "g", "o", "u", "t", "p", "u", "t", "s", "t", "r", "e", "a", "m">>

PathX == <<"/", "r", "/", "x">>
PathY == <<"/", "r", "/", "y">>
PathD == <<"/", "r", "/", "d">>
PathDX == <<"/", "r", "/", "d", "/", "x">>
\* /r/x.goutputstream-1: a temporary file next to /r/x
PathXTemp == PathX \o Marker \o <<"-", "1">>
\* /r/.goutputstream-1: the base name starts with the marker
PathTemp == <<"/", "r", "/">> \o Marker \o <<"-", "1">>
\* /r/d.goutputstream/x: only a directory of the path carries the marker
PathMarkedDirX == PathD \o Marker \o <<"/", "x">>
\* /r/d.goutputstream/x.goutputstream-1: a directory and the base name carry it
PathMarkedDirXTemp == PathMarkedDirX \o Marker \o <<"-", "1">>

\* the paths the observer reports events for
Paths == {PathX, PathY, PathD, PathDX, PathXTemp, PathTemp, PathMarkedDirX,
          PathMarkedDirXTemp}

None == <<"None">>

\* the truth value of a path or None in an if statement
Truthy(v) == v # None /\ v # <<>>

Line(type, src, other) == [type |-> type, src |-> src, other |-> other]

Event(kind, src, dest, dir, exists) ==
    [kind |-> kind, src_path |-> src, dest_path |-> dest, is_directory |-> dir,
     exists |-> exists]

\* line 53
BaseName(temp_path) == Split(temp_path, Marker)[1]

\* lines 52-56 without the check of line 54
find_original_file_Unchecked(temp_path, exists) == BaseName(temp_path)

\* lines 52-56; exists is what os.path.exists(base_name) answers at line 54
find_original_file(temp_path, exists) ==
    IF exists THEN BaseName(temp_path) ELSE None

\* lines 26-29 without the branch of line 26
CreatedLine_FileOnly(src, dir) == Line("file_created", src, <<>>)

\* lines 26-29
CreatedLine(src, dir) ==
    IF dir THEN Line("dir_created", src, <<>>) ELSE Line("file_created", src, <<>>)

\* line 21 testing the whole path instead of its base name
IsTempCreated_FullPath(src) == Contains(src, Marker)

\* line 21
IsTempCreated(src) == Contains(basename(src), Marker)

\* lines 20-29.  os.path.exists answers either way at line 54, except that the
\* empty path never exists; it is not asked for a name without the marker.
on_created(src, dir, exists) ==
    /\ exists => IsTempCreated(src) /\ BaseName(src) # <<>>
    /\ fs_event' = Event("created", src, <<>>, dir, exists)
    /\ IF IsTempCreated(src)
       THEN LET original_path == find_original_file(src, exists) IN
            IF Truthy(original_path)
            THEN /\ temporary_file_map' =
                       [p \in DOMAIN temporary_file_map \cup {src} |->
                           IF p = src THEN original_path ELSE temporary_file_map[p]]
                 /\ file_log' = <<Line("temp_created", src, original_path)>>
            ELSE /\ file_log' = <<>>
                 /\ UNCHANGED temporary_file_map
       ELSE /\ file_log' = <<CreatedLine(src, dir)>>
            /\ UNCHANGED temporary_file_map
    /\ UNCHANGED <<proc_vars, net_vars, codec_vars, main_vars>>

\* lines 35-38 without the branch of line 35
DeletedLine_FileOnly(src, dir) == Line("file_deleted", src, <<>>)

\* lines 35-38
DeletedLine(src, dir) ==
    IF dir THEN Line("dir_deleted", src, <<>>) ELSE Line("file_deleted", src, <<>>)

\* line 32
IsTempDeleted(src) == Contains(basename(src), Marker)

\* lines 31-38 with the link of the deleted path dropped from the map
on_deleted_Evicts(src, dir) ==
    /\ fs_event' = Event("deleted", src, <<>>, dir, FALSE)
    /\ file_log' = IF IsTempDeleted(src) THEN <<>> ELSE <<DeletedLine(src, dir)>>
    /\ temporary_file_map' =
          [p \in DOMAIN temporary_file_map \ {src} |-> temporary_file_map[p]]
    /\ UNCHANGED <<proc_vars, net_vars, codec_vars, main_vars>>

\* lines 31-38
on_deleted(src, dir) ==
    /\ fs_event' = Event("deleted", src, <<>>, dir, FALSE)
    /\ file_log' = IF IsTempDeleted(src) THEN <<>> ELSE <<DeletedLine(src, dir)>>
    /\ UNCHANGED <<temporary_file_map, proc_vars, net_vars, codec_vars, main_vars>>

\* lines 44-50 comparing the paths instead of their directories
MovedLine_ComparesPaths(src, dest) ==
    IF src = dest THEN Line("renamed", src, dest) ELSE Line("moved", src, dest)

\* lines 44-50
MovedLine(src, dest) ==
    IF dirname(src) = dirname(dest)
    THEN Line("renamed", src, dest)
    ELSE Line("moved", src, dest)

\* line 41
IsTempMoved(src, dest) == Contains(basename(src), Marker)

\* lines 40-50
on_moved(src, dest, dir) ==
    /\ fs_event' = Event("moved", src, dest, dir, FALSE)
    /\ file_log' = IF IsTempMoved(src, dest) THEN <<>> ELSE <<MovedLine(src, dest)>>
    /\ UNCHANGED <<temporary_file_map, proc_vars, net_vars, codec_vars, main_vars>>

\* the observer delivers one event to its handler
FsNext ==
    \/ \E src \in Paths, dir \in BOOLEAN, exists \in BOOLEAN : on_created(src, dir, exists)
    \/ \E src \in Paths, dir \in BOOLEAN : on_deleted(src, dir)
    \/ \E src \in Paths, dest \in Paths, dir \in BOOLEAN : on_moved(src, dest, dir)

-----------------------------------------------------------------------------
(* main, and the three observers running as threads of one process *)

Roots == {"missing", "nonexistent", "file", "dir"}

\* line 133 without the os.path.isdir test
RootValid_NoDirCheck(r) == r \in {"file", "dir"}

\* lines 127 and 133: an argument is given, it exists and it is a directory
RootValid(r) == r = "dir"

\* lines 127-135
CheckArgs ==
    /\ main_pc = "start"
    /\ IF RootValid(root)
       THEN /\ main_pc' = "validated"
            /\ UNCHANGED <<exit_status, console>>
       ELSE /\ main_pc' = "exited"
            /\ exit_status' = 1
            /\ console' = IF root = "missing" THEN "usage" ELSE "error"
    /\ UNCHANGED <<root, started, startup_logged, proc_vars, net_vars, codec_vars, fs_vars>>

\* lines 137-144
StartProcThread ==
    /\ main_pc = "validated"
    /\ startup_logged' = TRUE
    /\ started' = started \cup {"proc"}
    /\ main_pc' = "proc_started"
    /\ UNCHANGED <<root, exit_status, console, proc_vars, net_vars, codec_vars, fs_vars>>

\* line 147
StartNetThread ==
    /\ main_pc = "proc_started"
    /\ started' = started \cup {"net"}
    /\ main_pc' = "net_started"
    /\ UNCHANGED <<root, exit_status, console, startup_logged, proc_vars, net_vars,
                   codec_vars, fs_vars>>

\* lines 150-157
StartObserver ==
    /\ main_pc = "net_started"
    /\ started' = started \cup {"fs"}
    /\ console' = "started"
    /\ main_pc' = "watching"
    /\ UNCHANGED <<root, exit_status, startup_logged, proc_vars, net_vars, codec_vars,
                   fs_vars>>

\* lines 158-161 and the return of main: Ctrl+C ends the program, and its
\* daemon threads with it
Interrupt ==
    /\ main_pc = "watching"
    /\ main_pc' = "exited"
    /\ exit_status' = 0
    /\ console' = "stopped"
    /\ UNCHANGED <<root, started, startup_logged, proc_vars, net_vars, codec_vars, fs_vars>>

\* lines 144, 147, 155 with the uncaught exception of one thread ending the
\* whole process
ThreadRuns_SharedFate(t) ==
    /\ t \in started
    /\ main_pc # "exited"
    /\ proc_pc # "dead"
    /\ net_pc # "dead"

\* lines 144, 147, 155: an observer runs in a thread of its own from its start
\* until the program exits
ThreadRuns(t) == t \in started /\ main_pc # "exited"

\* line 63: os.listdir('/proc') raises OSError, which nothing catches
ProcTableFault ==
    /\ ThreadRuns("proc")
    /\ proc_pc = "poll"
    /\ proc_pc' = "dead"
    /\ UNCHANGED <<alive, gen, known_pids, current_pids, new_pids, terminated_pids,
                   process_log, attempted, read_failed, read_failed_prev, known_gen,
                   current_gen, cmdline_read, unterminated, first_cycle,
                   net_vars, codec_vars, fs_vars, main_vars>>

\* lines 94, 98-99: open raises OSError, which nothing catches
NetTableFault ==
    /\ ThreadRuns("net")
    /\ net_pc = "poll"
    /\ net_pc' = "dead"
    /\ net_fault' = "OSError"
    /\ UNCHANGED <<tcp_connections, udp_connections, network_log, fault_line, tcp_read,
                   udp_read, proc_vars, codec_vars, fs_vars, main_vars>>

\* the inputs of the observers when all three run together
MainPids == {1}
MainTables == {<<HeaderLine, GoodLine>>, <<HeaderLine, NoColonLine>>}
MainPaths == {PathX, PathXTemp}

\* a step of the thread of monitor_processes
ProcThreadStep ==
    /\ ThreadRuns("proc")
    /\ \/ ListProc
       \/ \E p \in MainPids : ReadCmdline(p)
       \/ \E p \in MainPids : LogTerminated(p)
       \/ EndCycle

\* a step of the thread of monitor_network
NetThreadStep ==
    /\ ThreadRuns("net")
    /\ \/ ReadConnectionsOf(MainTables)
       \/ LogTcp
       \/ LogUdp
       \/ NetSleep

\* the observer thread calls a handler
FsThreadStep ==
    /\ ThreadRuns("fs")
    /\ \/ \E src \in MainPaths, dir \in BOOLEAN, exists \in BOOLEAN :
             on_created(src, dir, exists)
       \/ \E src \in MainPaths, dir \in BOOLEAN : on_deleted(src, dir)
       \/ \E src \in MainPaths, dest \in MainPaths, dir \in BOOLEAN :
             on_moved(src, dest, dir)

MainNext ==
    \/ CheckArgs
    \/ StartProcThread
    \/ StartNetThread
    \/ StartObserver
    \/ Interrupt
    \/ \E p \in MainPids : Spawn(p)
    \/ \E p \in MainPids : Exit(p)
    \/ ProcThreadStep
    \/ ProcTableFault
    \/ NetThreadStep
    \/ NetTableFault
    \/ FsThreadStep

-----------------------------------------------------------------------------
(* Specifications: each component runs against its own inputs, main having   *)
(* started it; the state of the other components stays as constructed.      *)

\* monitor_processes starts (line 60) on a machine with some processes running
ProcInit ==
    /\ alive \in SUBSET PIDs
    /\ gen = [p \in PIDs |-> IF p \in alive THEN 1 ELSE 0]
    /\ known_pids = InitialKnownPids
    /\ current_pids = {}
    /\ new_pids = {}
    /\ terminated_pids = {}
    /\ proc_pc = "poll"
    /\ process_log = <<>>
    /\ attempted = {}
    /\ read_failed = {}
    /\ read_failed_prev = {}
    /\ cmdline_read = NoRead
    /\ unterminated = [p \in PIDs |-> 0]
    /\ first_cycle = TRUE
    /\ known_gen = [p \in PIDs |-> 0]
    /\ current_gen = [p \in PIDs |-> 0]
    /\ tcp_connections = <<>>
    /\ udp_connections = <<>>
    /\ net_pc = "poll"
    /\ network_log = <<>>
    /\ net_fault = "none"
    /\ fault_line = <<>>
    /\ tcp_read = <<>>
    /\ udp_read = <<>>
    /\ hex_ip = <<>>
    /\ decoded = NotCalled
    /\ temporary_file_map = [p \in {} |-> <<>>]
    /\ fs_event = Event("none", <<>>, <<>>, FALSE, FALSE)
    /\ file_log = <<>>
    /\ root = "dir"
    /\ main_pc = "watching"
    /\ exit_status = "none"
    /\ console = "started"
    /\ started = {"proc", "net", "fs"}
    /\ startup_logged = TRUE

\* monitor_network starts (line 92)
NetInit ==
    /\ alive = {}
    /\ gen = [p \in PIDs |-> 0]
    /\ known_pids = InitialKnownPids
    /\ current_pids = {}
    /\ new_pids = {}
    /\ terminated_pids = {}
    /\ proc_pc = "poll"
    /\ process_log = <<>>
    /\ attempted = {}
    /\ read_failed = {}
    /\ read_failed_prev = {}
    /\ cmdline_read = NoRead
    /\ unterminated = [p \in PIDs |-> 0]
    /\ first_cycle = TRUE
    /\ known_gen = [p \in PIDs |-> 0]
    /\ current_gen = [p \in PIDs |-> 0]
    /\ tcp_connections = <<>>
    /\ udp_connections = <<>>
    /\ net_pc = "poll"
    /\ network_log = <<>>
    /\ net_fault = "none"
    /\ fault_line = <<>>
    /\ tcp_read = <<>>
    /\ udp_read = <<>>
    /\ hex_ip = <<>>
    /\ decoded = NotCalled
    /\ temporary_file_map = [p \in {} |-> <<>>]
    /\ fs_event = Event("none", <<>>, <<>>, FALSE, FALSE)
    /\ file_log = <<>>
    /\ root = "dir"
    /\ main_pc = "watching"
    /\ exit_status = "none"
    /\ console = "started"
    /\ started = {"proc", "net", "fs"}
    /\ startup_logged = TRUE

\* hex_to_ip is about to be called with some argument
CodecInit ==
    /\ alive = {}
    /\ gen = [p \in PIDs |-> 0]
    /\ known_pids = InitialKnownPids
    /\ current_pids = {}
    /\ new_pids = {}
    /\ terminated_pids = {}
    /\ proc_pc = "poll"
    /\ process_log = <<>>
    /\ attempted = {}
    /\ read_failed = {}
    /\ read_failed_prev = {}
    /\ cmdline_read = NoRead
    /\ unterminated = [p \in PIDs |-> 0]
    /\ first_cycle = TRUE
    /\ known_gen = [p \in PIDs |-> 0]
    /\ current_gen = [p \in PIDs |-> 0]
    /\ tcp_connections = <<>>
    /\ udp_connections = <<>>
    /\ net_pc = "poll"
    /\ network_log = <<>>
    /\ net_fault = "none"
    /\ fault_line = <<>>
    /\ tcp_read = <<>>
    /\ udp_read = <<>>
    /\ hex_ip \in HexInputs
    /\ decoded = NotCalled
    /\ temporary_file_map = [p \in {} |-> <<>>]
    /\ fs_event = Event("none", <<>>, <<>>, FALSE, FALSE)
    /\ file_log = <<>>
    /\ root = "dir"
    /\ main_pc = "watching"
    /\ exit_status = "none"
    /\ console = "started"
    /\ started = {"proc", "net", "fs"}
    /\ startup_logged = TRUE

\* FileAuditHandler is constructed (lines 13-18)
FsInit ==
    /\ alive = {}
    /\ gen = [p \in PIDs |-> 0]
    /\ known_pids = InitialKnownPids
    /\ current_pids = {}
    /\ new_pids = {}
    /\ terminated_pids = {}
    /\ proc_pc = "poll"
    /\ process_log = <<>>
    /\ attempted = {}
    /\ read_failed = {}
    /\ read_failed_prev = {}
    /\ cmdline_read = NoRead
    /\ unterminated = [p \in PIDs |-> 0]
    /\ first_cycle = TRUE
    /\ known_gen = [p \in PIDs |-> 0]
    /\ current_gen = [p \in PIDs |-> 0]
    /\ tcp_connections = <<>>
    /\ udp_connections = <<>>
    /\ net_pc = "poll"
    /\ network_log = <<>>
    /\ net_fault = "none"
    /\ fault_line = <<>>
    /\ tcp_read = <<>>
    /\ udp_read = <<>>
    /\ hex_ip = <<>>
    /\ decoded = NotCalled
    /\ temporary_file_map = [p \in {} |-> <<>>]
    /\ fs_event = Event("none", <<>>, <<>>, FALSE, FALSE)
    /\ file_log = <<>>
    /\ root = "dir"
    /\ main_pc = "watching"
    /\ exit_status = "none"
    /\ console = "started"
    /\ started = {"proc", "net", "fs"}
    /\ startup_logged = TRUE

\* the program is started (line 165) with some argument
MainInit ==
    /\ alive \in SUBSET MainPids
    /\ gen = [p \in PIDs |-> IF p \in alive THEN 1 ELSE 0]
    /\ known_pids = InitialKnownPids
    /\ current_pids = {}
    /\ new_pids = {}
    /\ terminated_pids = {}
    /\ proc_pc = "poll"
    /\ process_log = <<>>
    /\ attempted = {}
    /\ read_failed = {}
    /\ read_failed_prev = {}
    /\ cmdline_read = NoRead
    /\ unterminated = [p \in PIDs |-> 0]
    /\ first_cycle = TRUE
    /\ known_gen = [p \in PIDs |-> 0]
    /\ current_gen = [p \in PIDs |-> 0]
    /\ tcp_connections = <<>>
    /\ udp_connections = <<>>
    /\ net_pc = "poll"
    /\ network_log = <<>>
    /\ net_fault = "none"
    /\ fault_line = <<>>
    /\ tcp_read = <<>>
    /\ udp_read = <<>>
    /\ hex_ip = <<>>
    /\ decoded = NotCalled
    /\ temporary_file_map = [p \in {} |-> <<>>]
    /\ fs_event = Event("none", <<>>, <<>>, FALSE, FALSE)
    /\ file_log = <<>>
    /\ root \in Roots
    /\ main_pc = "start"
    /\ exit_status = "none"
    /\ console = "none"
    /\ started = {}
    /\ startup_logged = FALSE

SpecProc == ProcInit /\ [][ProcNext]_vars

SpecNet == NetInit /\ [][NetNext]_vars

SpecCodec == CodecInit /\ [][CodecNext]_vars

SpecFs == FsInit /\ [][FsNext]_vars

SpecMain == MainInit /\ [][MainNext]_vars

-----------------------------------------------------------------------------
(* Properties of monitor_processes, checked under SpecProc *)

\* the PIDs the lines of log of the given type are about
PidsLogged(log, type) == {log[i].pid : i \in {j \in 1..Len(log) : log[j].type = type}}

\* the number of lines of log of the given type about p
TimesLogged(log, type, p) ==
    Cardinality({i \in 1..Len(log) : log[i].type = type /\ log[i].pid = p})

StartTypes == {"start_nocmd", "start_cmd"}

\* C1: a PID that was listed but whose cmdline could not be opened because the
\* process was gone gets no line at all: no start line in that cycle, and no
\* termination line in the next cycle when the listing no longer has it.
C1_VanishedPidLogsNothing ==
    /\ \A p \in read_failed :
          \A i \in 1..Len(process_log) : process_log[i].pid # p
    /\ \A p \in read_failed_prev :
          p \notin current_pids => p \notin PidsLogged(process_log, "terminated")

\* C2: when both loops of a cycle have ended, the PIDs with a termination line
\* are exactly previous - current (one line each), the PIDs whose cmdline was
\* opened are exactly current - previous, and equal snapshots log nothing.
C2_CycleLogsTheDifference ==
    CycleDone =>
        /\ PidsLogged(process_log, "terminated") = known_pids \ current_pids
        /\ \A p \in known_pids \ current_pids :
              TimesLogged(process_log, "terminated", p) = 1
        /\ attempted = current_pids \ known_pids
        /\ PidsLogged(process_log, "start_nocmd") \cup PidsLogged(process_log, "start_cmd")
              \subseteq current_pids \ known_pids
        /\ current_pids = known_pids => process_log = <<>>

\* a finished cycle that saw a PID go and another PID come
C2_Witness ==
    /\ CycleDone
    /\ known_pids \ current_pids # {}
    /\ current_pids \ known_pids # {}
    /\ known_pids \cap current_pids = {}

\* C3: a PID that is carried by another process at this listing than at the
\* previous one is logged as terminated and then as started in this cycle.
C3_PidReuseIsLogged ==
    CycleDone =>
        \A p \in known_pids \cap current_pids :
            known_gen[p] # current_gen[p] =>
                \E i, j \in 1..Len(process_log) :
                    /\ i < j
                    /\ process_log[i] = Terminated(p)
                    /\ process_log[j].pid = p
                    /\ process_log[j].type \in StartTypes

-----------------------------------------------------------------------------
(* Properties of monitor_network and hex_to_ip *)

\* C4 (SpecNet): a malformed table line is skipped; it never ends the loop, so
\* the lines after it are still logged and further cycles follow.
C4_MalformedLineIsSkipped == net_pc = "dead" => ~Malformed(fault_line)

\* C5 (SpecCodec): an argument with a character that is no hexadecimal digit,
\* or with a length other than 8, decodes to the sentinel, without an exception.
C5_MalformedDecodesToSentinel ==
    (/\ decoded # NotCalled
     /\ \/ \E i \in 1..Len(hex_ip) : ~IsHexDigit(hex_ip[i])
        \/ Len(hex_ip) # 8)
        => decoded = InvalidIP

\* the lines logged for the well-formed lines of a table, in the table's order
RECURSIVE LinesLogged(_, _)
LinesLogged(protocol, lines) ==
    IF lines = <<>> THEN <<>>
    ELSE (IF Malformed(Head(lines)) THEN <<>> ELSE <<ParseConn(protocol, Head(lines))>>)
         \o LinesLogged(protocol, Tail(lines))

\* the cycle that read the tables has ended, with line 111 or with the thread
NetCycleOver == net_pc \in {"poll", "dead"}

\* C12 (SpecNet): a cycle logs one line for each line after the header of the
\* TCP table and then one for each of the UDP table, whatever earlier cycles
\* logged.
C12_EveryLineLoggedEachCycle ==
    NetCycleOver =>
        network_log = LinesLogged("TCP", tcp_read) \o LinesLogged("UDP", udp_read)

-----------------------------------------------------------------------------
(* Properties of FileAuditHandler, checked under SpecFs *)

HasMarker(name) == Contains(name, Marker)

NoLinks == [p \in {} |-> <<>>]

\* C6: a move whose source or destination base name contains the marker logs
\* nothing.
C6_MoveOfTempIsSuppressed ==
    (/\ fs_event.kind = "moved"
     /\ \/ HasMarker(basename(fs_event.src_path))
        \/ HasMarker(basename(fs_event.dest_path)))
        => file_log = <<>>

\* C7: on_created for a base name with the marker: when the derived original
\* exists, exactly one correlation line naming the original is logged, the link
\* temp path -> original is recorded and no creation line is logged; when it
\* does not exist, nothing is logged and the map stays as it was.
C7_TempCreated ==
    [][(/\ fs_event'.kind = "created"
        /\ HasMarker(basename(fs_event'.src_path)))
        => LET src == fs_event'.src_path
               original == Split(src, Marker)[1]
           IN  IF fs_event'.exists
               THEN /\ file_log' = <<Line("temp_created", src, original)>>
                    /\ DOMAIN temporary_file_map' = DOMAIN temporary_file_map \cup {src}
                    /\ temporary_file_map'[src] = original
                    /\ \A p \in DOMAIN temporary_file_map \ {src} :
                          temporary_file_map'[p] = temporary_file_map[p]
               ELSE /\ file_log' = <<>>
                    /\ temporary_file_map' = temporary_file_map]_vars

\* a temporary file was created next to its existing original
C7_Witness ==
    /\ fs_event.kind = "created"
    /\ HasMarker(basename(fs_event.src_path))
    /\ fs_event.exists
    /\ fs_event.src_path \in DOMAIN temporary_file_map
    /\ Len(file_log) = 1

\* C8: a move between two base names without the marker logs exactly one line,
\* "renamed" when both paths have the same parent directory and "moved" when
\* they do not, and leaves the map as it was.
C8_MoveLogsOneLine ==
    [][(/\ fs_event'.kind = "moved"
        /\ ~HasMarker(basename(fs_event'.src_path))
        /\ ~HasMarker(basename(fs_event'.dest_path)))
        => LET src == fs_event'.src_path
               dest == fs_event'.dest_path
           IN  /\ file_log' =
                     <<Line(IF dirname(src) = dirname(dest) THEN "renamed" ELSE "moved",
                            src, dest)>>
               /\ temporary_file_map' = temporary_file_map]_vars

\* a rename inside one directory, with a link in the map
C8_Witness ==
    /\ fs_event.kind = "moved"
    /\ ~HasMarker(basename(fs_event.src_path))
    /\ ~HasMarker(basename(fs_event.dest_path))
    /\ fs_event.src_path # fs_event.dest_path
    /\ Len(file_log) = 1
    /\ file_log[1].type = "renamed"
    /\ temporary_file_map # NoLinks

\* C9: on_deleted logs nothing for a base name with the marker and otherwise
\* exactly one line, of a directory or of a file by the entry's kind; the map
\* stays as it was.
C9_DeleteLogsByKind ==
    [][fs_event'.kind = "deleted"
        => LET src == fs_event'.src_path IN
           /\ file_log' =
                 IF HasMarker(basename(src)) THEN <<>>
                 ELSE <<Line(IF fs_event'.is_directory THEN "dir_deleted"
                             ELSE "file_deleted", src, <<>>)>>
           /\ temporary_file_map' = temporary_file_map]_vars

\* a directory without the marker was deleted, with a link in the map
C9_Witness ==
    /\ fs_event.kind = "deleted"
    /\ ~HasMarker(basename(fs_event.src_path))
    /\ fs_event.is_directory
    /\ Len(file_log) = 1
    /\ temporary_file_map # NoLinks

\* C10: on_created for a base name without the marker logs exactly one line, of
\* a directory or of a file by the entry's kind, and leaves the map as it was.
C10_PlainCreateLogsOneLine ==
    [][(/\ fs_event'.kind = "created"
        /\ ~HasMarker(basename(fs_event'.src_path)))
        => /\ file_log' =
                 <<Line(IF fs_event'.is_directory THEN "dir_created" ELSE "file_created",
                        fs_event'.src_path, <<>>)>>
           /\ temporary_file_map' = temporary_file_map]_vars

\* a directory without the marker was created, with a link in the map
C10_Witness ==
    /\ fs_event.kind = "created"
    /\ ~HasMarker(basename(fs_event.src_path))
    /\ fs_event.is_directory
    /\ Len(file_log) = 1
    /\ temporary_file_map # NoLinks

\* the line an ordinary entry gets: by the entry's kind for a creation or a
\* deletion, by the two parent directories for a move
OrdinaryLine(e) ==
    IF e.kind = "created"
    THEN Line(IF e.is_directory THEN "dir_created" ELSE "file_created", e.src_path, <<>>)
    ELSE IF e.kind = "deleted"
    THEN Line(IF e.is_directory THEN "dir_deleted" ELSE "file_deleted", e.src_path, <<>>)
    ELSE Line(IF dirname(e.src_path) = dirname(e.dest_path) THEN "renamed" ELSE "moved",
              e.src_path, e.dest_path)

\* C11: the three handlers decide on the base name of the event path alone: an
\* event whose base name lacks the marker, under a directory whose name has it,
\* is logged like any ordinary entry, and a handler logs nothing only for a
\* base name with the marker.
C11_MarkerCheckUsesBaseName ==
    [][/\ (/\ ~HasMarker(basename(fs_event'.src_path))
           /\ HasMarker(dirname(fs_event'.src_path)))
          => file_log' = <<OrdinaryLine(fs_event')>>
       /\ file_log' = <<>> => HasMarker(basename(fs_event'.src_path))]_vars

\* a file was created in a directory whose name has the marker
C11_Witness ==
    /\ fs_event.kind = "created"
    /\ ~HasMarker(basename(fs_event.src_path))
    /\ HasMarker(dirname(fs_event.src_path))
    /\ file_log = <<OrdinaryLine(fs_event)>>

-----------------------------------------------------------------------------
(* Properties of main and of the observers running together, under SpecMain *)

\* the observer t was started and the program has not exited
Started(t) == t \in started /\ main_pc # "exited"

\* C13: a fatal fault in one polling loop stops that loop alone: with a loop
\* dead, the other loop (unless dead itself) and the filesystem handler can
\* still take their next step.
C13_FaultStopsOnlyItsLoop ==
    /\ (net_pc = "dead" /\ Started("proc") /\ proc_pc # "dead") => ENABLED ProcThreadStep
    /\ (proc_pc = "dead" /\ Started("net") /\ net_pc # "dead") => ENABLED NetThreadStep
    /\ ((net_pc = "dead" \/ proc_pc = "dead") /\ Started("fs")) => ENABLED FsThreadStep

\* both polling loops are dead and the handler has logged a line since
C13_Witness ==
    /\ net_pc = "dead"
    /\ proc_pc = "dead"
    /\ Started("fs")
    /\ fs_event.kind = "created"
    /\ file_log # <<>>

\* C14: with the root argument missing, or naming no existing directory, the
\* program prints an error and exits with a non-zero status; no observer is
\* started and no line reaches any logger.
C14_InvalidRootStartsNothing ==
    root # "dir" =>
        /\ main_pc \in {"start", "exited"}
        /\ main_pc = "exited" => (exit_status = 1 /\ console \in {"usage", "error"})
        /\ started = {}
        /\ ~startup_logged
        /\ process_log = <<>>
        /\ network_log = <<>>
        /\ file_log = <<>>

\* the program has exited on a root that is a file
C14_Witness == root = "file" /\ main_pc = "exited" /\ exit_status = 1

-----------------------------------------------------------------------------
(* hex_to_ip on eight hexadecimal digits *)

\* the k-th byte of an 8-digit string, in written order
Byte(h, k) == 16 * DigitVal(h[2 * k - 1]) + DigitVal(h[2 * k])

\* a byte as two upper-case hexadecimal digits
HexOf(b) == <<HexDigits[(b \div 16) + 1], HexDigits[(b % 16) + 1]>>

\* a dotted quad as /proc/net writes it: the last octet first
Encode(q) == HexOf(q[4]) \o HexOf(q[3]) \o HexOf(q[2]) \o HexOf(q[1])

\* C15: eight hexadecimal digits with bytes b0 b1 b2 b3 in written order
\* decode to the dotted quad b3.b2.b1.b0, 0100007F decodes to 127.0.0.1, and
\* encoding the decoded quad gives the digits back, which decode to the same
\* quad again.
C15_DecodeReversesBytes ==
    /\ (decoded # NotCalled /\ Len(hex_ip) = 8 /\ IsHex(hex_ip)) =>
          /\ decoded = Quad(<<Byte(hex_ip, 4), Byte(hex_ip, 3),
                              Byte(hex_ip, 2), Byte(hex_ip, 1)>>)
          /\ Encode(decoded.quad) = hex_ip
          /\ hex_to_ip(Encode(decoded.quad)) = decoded
    /\ (decoded # NotCalled /\ hex_ip = Loopback) =>
          /\ decoded = Quad(<<127, 0, 0, 1>>)
          /\ Encode(<<127, 0, 0, 1>>) = hex_ip

\* 0100007F has been decoded to a dotted quad
C15_Witness == hex_ip = Loopback /\ decoded.kind = "ip"

-----------------------------------------------------------------------------
(* The start event of a command line that was read *)

\* nothing but NUL bytes and whitespace
Blank(blob) == \A i \in 1..Len(blob) : blob[i] \in Whitespace \cup {"NUL"}

\* c is blob from its first to its last character that is neither NUL nor
\* whitespace, with the NUL bytes in between written as spaces
IsCommandOf(c, blob) ==
    \E i, j \in 1..Len(blob) :
        /\ i <= j
        /\ ~Blank(<<blob[i]>>) /\ ~Blank(<<blob[j]>>)
        /\ Blank(SubSeq(blob, 1, i - 1)) /\ Blank(SubSeq(blob, j + 1, Len(blob)))
        /\ c = [k \in 1..(j - i + 1) |->
                   IF blob[i + k - 1] = "NUL" THEN " " ELSE blob[i + k - 1]]

StartLinesOf(log, p) ==
    {i \in 1..Len(log) : log[i].pid = p /\ log[i].type \in StartTypes}

\* C16: the step that reads the command line of a new PID appends one line:
\* the "no command" form when the content is empty after NUL -> space and
\* trimming, else the "command" form carrying the trimmed content; and a PID
\* whose command line was read has exactly one start line in the cycle's log.
C16_OneStartEventPerRead ==
    [][/\ \A p \in (attempted' \ attempted) \ read_failed' :
             LET e == process_log'[Len(process_log')] IN
             /\ process_log' = Append(process_log, e)
             /\ IF Blank(cmdline_read')
                THEN e = StartNoCmd(p)
                ELSE /\ e.type = "start_cmd" /\ e.pid = p /\ e.cmd # <<>>
                     /\ IsCommandOf(e.cmd, cmdline_read')
       /\ \A p \in attempted' \ read_failed' :
             Cardinality(StartLinesOf(process_log', p)) = 1]_vars

\* a command line of one NUL byte was read and logged in the "no command" form
C16_Witness ==
    /\ cmdline_read = <<"NUL">>
    /\ process_log # <<>>
    /\ process_log[Len(process_log)].type = "start_nocmd"

-----------------------------------------------------------------------------
(* Detections and terminations of one PID *)

\* C19: for every PID, detections as newly added and termination lines
\* alternate, starting with a detection: the detections never fall behind the
\* termination lines and lead them by at most one; a PID is detected only
\* when all its earlier detections were terminated, and a termination line is
\* logged only for a PID of the previous snapshot whose latest detection is
\* still open.
C19_DetectionsAndTerminationsAlternate ==
    [][\A p \in PIDs :
          /\ unterminated'[p] \in {0, 1}
          /\ (p \in new_pids' /\ proc_pc = "poll") =>
                (unterminated[p] = 0 /\ unterminated'[p] = 1)
          /\ (TimesLogged(process_log', "terminated", p)
                 > TimesLogged(process_log, "terminated", p)) =>
                (unterminated[p] = 1 /\ unterminated'[p] = 0 /\ p \in known_pids)]_vars

\* a PID was detected, its termination was logged, and it is gone
C19_Witness ==
    \E p \in PIDs :
        /\ TimesLogged(process_log, "terminated", p) = 1
        /\ unterminated[p] = 0
        /\ p \notin current_pids

\* C20: in the first cycle the previous snapshot is empty, every PID listed
\* is visited as new, each one whose command line could be read gets a start
\* line and no other does, and no termination line is logged.
C20_FirstCycleLogsRunningProcesses ==
    first_cycle =>
        /\ known_pids = {}
        /\ terminated_pids = {}
        /\ PidsLogged(process_log, "terminated") = {}
        /\ proc_pc = "loops" =>
              /\ attempted \cup new_pids = current_pids
              /\ attempted \cap new_pids = {}
              /\ \A p \in attempted \ read_failed :
                    Cardinality(StartLinesOf(process_log, p)) = 1
              /\ \A p \in current_pids \ (attempted \ read_failed) :
                    StartLinesOf(process_log, p) = {}

\* the first cycle is over and logged a start line for every PID it listed
C20_Witness ==
    /\ first_cycle /\ CycleDone
    /\ current_pids = PIDs
    /\ read_failed = {}
    /\ Len(process_log) = Cardinality(PIDs)

-----------------------------------------------------------------------------
(* The links of temporary_file_map *)

\* C17: no handler call removes or changes a recorded link: every key of the
\* map is a key after the call, with the same value.
C17_LinksAreKept ==
    [][\A p \in DOMAIN temporary_file_map :
          /\ p \in DOMAIN temporary_file_map'
          /\ temporary_file_map'[p] = temporary_file_map[p]]_vars

\* the temporary file of a recorded link was deleted, the link is still there
C17_Witness ==
    /\ fs_event.kind = "deleted"
    /\ fs_event.src_path = PathXTemp
    /\ PathXTemp \in DOMAIN temporary_file_map
    /\ temporary_file_map[PathXTemp] = PathX

\* C18: the original of every recorded link lies in the directory of the
\* temporary file, and its base name is the base name of the temporary file
\* up to the marker.
C18_OriginalIsSiblingOfTemp ==
    \A p \in DOMAIN temporary_file_map :
        /\ dirname(temporary_file_map[p]) = dirname(p)
        /\ basename(temporary_file_map[p]) = Split(basename(p), Marker)[1]

=============================================================================
